---------------------------- MODULE Spec2Model ----------------------------
(***************************************************************************)
(* media-quality-check: src/media_quality_check/cli.py                     *)
(*                                                                         *)
(* Representation of Python values                                         *)
(*   dict            a record/function; d.get(k, default) is Get           *)
(*   str             a TLA+ string (Len, SubSeq and \o act on strings)     *)
(*   score (float)   an integer number of hundredths: 5.0 is 500           *)
(*   bitrate (float) a rational [num, den] of bits per second, so that     *)
(*                   "x Mbps" is num / den = x * 1000000                   *)
(*   list element    its position in the list (object identity)            *)
(***************************************************************************)
EXTENDS Integers, Sequences, FiniteSets, TLC

VARIABLES
    argv,              \* sys.argv[1:]
    disk,              \* the file system: normalised path -> what ffprobe does
    pc,                \* position of the program
    idx,               \* position of main's for loop in argv
    FILE_MEDIA_SCORE,  \* module-level dict, in insertion order
    stdout,            \* what was printed (the lines that carry data)
    probed,            \* paths handed to run_ffprobe, in call order
    exc,               \* the uncaught exception that ended the run, or ""
    file,              \* analyze_file: str(Path(file))
    streams,           \* analyze_file: data.get("streams", [])
    fmt,               \* analyze_file: data.get("format", {})
    video_streams,     \* analyze_file: positions in streams of the video streams
    k,                 \* analyze_file: position of "for v in video_streams"
    is_hdr,            \* analyze_file: flag
    is_dv,             \* analyze_file: flag
    best_video,        \* analyze_file: position in streams of best_video, or 0
    video_score,       \* analyze_file: hundredths, or Unset
    vbps,              \* analyze_file: rational, or ZeroRate
    video_verdict,     \* analyze_file: verdict, or ""
    audio_score,       \* analyze_file: hundredths, or Unset
    media_score,       \* analyze_file: hundredths, or Unset
    args,              \* unit call: the actual parameters
    ret                \* unit call: the returned value

vars == <<argv, disk, pc, idx, FILE_MEDIA_SCORE, stdout, probed, exc, file,
          streams, fmt, video_streams, k, is_hdr, is_dv, best_video,
          video_score, vbps, video_verdict, audio_score, media_score,
          args, ret>>

mainVars == <<argv, disk, idx, FILE_MEDIA_SCORE, stdout, probed, exc>>

localVars == <<file, streams, fmt, video_streams, k, is_hdr, is_dv, best_video,
               video_score, vbps, video_verdict, audio_score, media_score>>

unitVars == <<args, ret>>

-----------------------------------------------------------------------------
(* Python built-ins *)

\* an unbound local of numeric type
Unset == 0 - 1

\* d.get(key, default)
Get(d, key, default) == IF key \in DOMAIN d THEN d[key] ELSE default

\* str.lower() on one character
LowerChar(c) ==
    LET up == [A |-> "a", B |-> "b", C |-> "c", D |-> "d", E |-> "e", F |-> "f",
               G |-> "g", H |-> "h", I |-> "i", J |-> "j", K |-> "k", L |-> "l",
               M |-> "m", N |-> "n", O |-> "o", P |-> "p", Q |-> "q", R |-> "r",
               S |-> "s", T |-> "t", U |-> "u", V |-> "v", W |-> "w", X |-> "x",
               Y |-> "y", Z |-> "z"]
    IN  IF c \in DOMAIN up THEN up[c] ELSE c

\* str.lower()
RECURSIVE Lower(_)
Lower(s) ==
    IF s = "" THEN ""
    ELSE LowerChar(SubSeq(s, 1, 1)) \o Lower(SubSeq(s, 2, Len(s)))

\* needle in hay
Contains(hay, needle) ==
    \E i \in 1..(Len(hay) - Len(needle) + 1) :
        SubSeq(hay, i, i + Len(needle) - 1) = needle

\* s.startswith(prefix)
StartsWith(s, prefix) ==
    /\ Len(s) >= Len(prefix)
    /\ SubSeq(s, 1, Len(prefix)) = prefix

\* int(s) of a decimal string
RECURSIVE ParseInt(_)
ParseInt(s) ==
    LET digit == [c \in {"0", "1", "2", "3", "4", "5", "6", "7", "8", "9"} |->
                    CASE c = "0" -> 0 [] c = "1" -> 1 [] c = "2" -> 2
                      [] c = "3" -> 3 [] c = "4" -> 4 [] c = "5" -> 5
                      [] c = "6" -> 6 [] c = "7" -> 7 [] c = "8" -> 8
                      [] c = "9" -> 9]
    IN  IF Len(s) = 1 THEN digit[s]
        ELSE ParseInt(SubSeq(s, 1, Len(s) - 1)) * 10 + digit[SubSeq(s, Len(s), Len(s))]

\* " ".join(parts)
RECURSIVE Join(_)
Join(parts) ==
    IF parts = <<>> THEN ""
    ELSE IF Len(parts) = 1 THEN parts[1]
    ELSE parts[1] \o " " \o Join(Tail(parts))

\* comparison of bitrates (rationals with positive denominators)
RateGT(a, b) == a.num * b.den > b.num * a.den

\* "vbps > mbps": the comparison with its boundary lost
MoreThanMbps(rate, mbps) == rate.num > mbps * 1000000 * rate.den

\* "vbps >= mbps" for a whole number of Mbps
AtLeastMbps(rate, mbps) == rate.num >= mbps * 1000000 * rate.den

\* "br_kbps >= kbps" for a bit rate in bits per second
AtLeastKbps(bits, kbps) == bits >= kbps * 1000

\* an insertion-ordered dict is a sequence of <<key, value>>
OGet(d, key, default) ==
    IF \E i \in DOMAIN d : d[i][1] = key
    THEN d[CHOOSE i \in DOMAIN d : d[i][1] = key][2]
    ELSE default

\* d[key] = value: a new key is appended, a known key keeps its place
OPut(d, key, value) ==
    IF \E i \in DOMAIN d : d[i][1] = key
    THEN [i \in DOMAIN d |-> IF d[i][1] = key THEN <<key, value>> ELSE d[i]]
    ELSE Append(d, <<key, value>>)

OKeys(d) == {d[i][1] : i \in DOMAIN d}

\* list(d.values())
OValues(d) == [i \in DOMAIN d |-> d[i][2]]

Min(a, b) == IF a <= b THEN a ELSE b
Max(a, b) == IF a >= b THEN a ELSE b

ZeroRate == [num |-> 0, den |-> 1]

-----------------------------------------------------------------------------
(* VIDEO HELPERS *)

detect_dolby_vision(video_stream) ==
    LET sdl == Get(video_stream, "side_data_list", <<>>)
        tag == Lower(Get(video_stream, "codec_tag_string", ""))
    IN  \/ \E i \in DOMAIN sdl :
              LET sdt == Lower(Get(sdl[i], "side_data_type", ""))
              IN  Contains(sdt, "dovi") \/ Contains(sdt, "dolby vision")
        \/ tag \in {"dvh1", "dvhe"}

\* size and duration are the values of ffprobe's decimal strings (whole
\* numbers here); duration defaults to 1, size to 0
get_video_bitrate_mbps(v, f) ==
    LET br == Get(v, "bit_rate", "")
    IN  IF br # "" THEN [num |-> ParseInt(br), den |-> 1]
        ELSE [num |-> Get(f, "size", 0) * 8, den |-> Get(f, "duration", 1)]

compute_video_score(v, f, hdr, dv) ==
    LET width == Get(v, "width", 0)
        rate  == get_video_bitrate_mbps(v, f)
        sv    == IF width >= 3840 THEN
                     IF dv \/ hdr THEN
                         IF AtLeastMbps(rate, 15) THEN <<500, "REFERENCE QUALITY">>
                         ELSE IF AtLeastMbps(rate, 12) THEN <<450, "EXCELLENT">>
                         ELSE <<400, "GOOD">>
                     ELSE
                         IF AtLeastMbps(rate, 20) THEN <<450, "EXCELLENT">>
                         ELSE <<400, "GOOD">>
                 ELSE IF width >= 1920 THEN
                     IF AtLeastMbps(rate, 30) THEN <<450, "EXCELLENT">>
                     ELSE IF AtLeastMbps(rate, 20) THEN <<400, "GOOD">>
                     ELSE <<350, "MEDIUM">>
                 ELSE IF width >= 1280 THEN <<300, "MEDIUM">>
                 ELSE <<200, "LOW">>
    IN  [score |-> sv[1], vbps |-> rate, verdict |-> sv[2]]

-----------------------------------------------------------------------------
(* AUDIO HELPERS *)

ObjectMarkers ==
    {"atmos", "dts:x", "dtsx", "dts x", "auro", "auro-3d", "mpeg-h", "3d audio"}

\* returns <<is_object, haystack>>
detect_object_audio(a) ==
    LET haystack == Lower(Join(<<Get(a, "codec_name", ""),
                                 Get(a, "codec_long_name", ""),
                                 Get(a, "profile", ""),
                                 Join(OValues(Get(a, "tags", <<>>)))>>))
    IN  <<\E m \in ObjectMarkers : Contains(haystack, m), haystack>>

\* one iteration of compute_audio_score's loop: min(score, 5.0) of stream a
audio_stream_score(a) ==
    LET codec   == Get(a, "codec_name", "")
        ch      == Get(a, "channels", 0)
        profile == Lower(Get(a, "profile", ""))
        own_br  == Get(a, "bit_rate", "")
        raw_br  == IF own_br # "" THEN own_br ELSE OGet(Get(a, "tags", <<>>), "BPS", "")
        br      == IF raw_br # "" THEN ParseInt(raw_br) ELSE 0
        is_object   == detect_object_audio(a)[1]
        is_lossless == \/ codec = "truehd"
                       \/ (StartsWith(codec, "dts") /\ Contains(profile, "hd"))
        base ==
            IF is_lossless THEN 500
            ELSE IF codec = "eac3" THEN
                IF AtLeastKbps(br, 640) THEN 460
                ELSE IF AtLeastKbps(br, 448) THEN 420
                ELSE IF AtLeastKbps(br, 384) THEN 380
                ELSE IF AtLeastKbps(br, 256) THEN 330
                ELSE 240
            ELSE IF codec = "ac3" THEN
                IF AtLeastKbps(br, 640) THEN 380
                ELSE IF AtLeastKbps(br, 448) THEN 340
                ELSE 300
            ELSE IF codec = "aac" THEN
                IF ch >= 6 /\ AtLeastKbps(br, 384) THEN 300
                ELSE IF ch >= 2 THEN 240
                ELSE 200
            ELSE 200
        channel_bonus == IF ch >= 8 THEN 20 ELSE IF ch >= 6 THEN 10 ELSE 0
        object_bonus ==
            IF is_object THEN
                IF is_lossless THEN 0
                ELSE IF codec = "eac3" /\ AtLeastKbps(br, 448) THEN 15
                ELSE IF StartsWith(codec, "dts") /\ AtLeastKbps(br, 1500) THEN 15
                ELSE 0
            ELSE 0
    IN  Min(base + channel_bonus + object_bonus, 500)

\* best = max(best, ...): the update that keeps the latest stream instead
KeepLatest(best, score) == score

\* best = max(best, min(score, 5.0))
KeepBest(best, score) == Max(best, score)

\* the loop of compute_audio_score from position i on, with best so far
RECURSIVE audio_loop(_, _, _)
audio_loop(ss, i, best) ==
    IF i > Len(ss) THEN best
    ELSE IF Get(ss[i], "codec_type", "") # "audio" THEN audio_loop(ss, i + 1, best)
    ELSE audio_loop(ss, i + 1, KeepBest(best, audio_stream_score(ss[i])))

compute_audio_score(ss) == audio_loop(ss, 1, 0)

-----------------------------------------------------------------------------
(* Values every specification starts from *)

MainIdle ==
    /\ argv = <<>>
    /\ disk = <<>>
    /\ idx = 1
    /\ FILE_MEDIA_SCORE = <<>>
    /\ stdout = <<>>
    /\ probed = <<>>
    /\ exc = ""

LocalsUnbound ==
    /\ file = ""
    /\ streams = <<>>
    /\ fmt = <<>>
    /\ video_streams = <<>>
    /\ k = 1
    /\ is_hdr = FALSE
    /\ is_dv = FALSE
    /\ best_video = 0
    /\ video_score = Unset
    /\ vbps = ZeroRate
    /\ video_verdict = ""
    /\ audio_score = Unset
    /\ media_score = Unset

UnitIdle ==
    /\ args = <<>>
    /\ ret = <<>>

-----------------------------------------------------------------------------
(* compute_video_score called on its own *)

Widths == {0, 640, 1279, 1280, 1281, 1919, 1920, 1921, 3839, 3840, 3841, 7680}

VideoBitRates ==
    {"11999999", "12000000", "14999999", "15000000", "16000000", "19999999",
     "20000000", "29999999", "30000000"}

\* container size (bytes) and duration (seconds): 20 Mbps, 15 Mbps, 14.999996 Mbps
Formats ==
    {<<>>,
     [size |-> 2500000, duration |-> 1],
     [size |-> 3750000, duration |-> 2],
     [size |-> 5624999, duration |-> 3],
     [size |-> 4000000]}

VideoArgs ==
    {[codec_type |-> "video"]}
    \cup {[codec_type |-> "video", width |-> w] : w \in Widths}
    \cup {[codec_type |-> "video", width |-> w, bit_rate |-> b] :
              w \in Widths, b \in VideoBitRates}

InitVideo ==
    /\ MainIdle
    /\ LocalsUnbound
    /\ pc = "compute_video_score"
    /\ args \in [v : VideoArgs, fmt : Formats, is_hdr : BOOLEAN, is_dv : BOOLEAN]
    /\ ret = <<>>

VideoCall ==
    /\ pc = "compute_video_score"
    /\ ret' = compute_video_score(args.v, args.fmt, args.is_hdr, args.is_dv)
    /\ pc' = "video_returned"
    /\ UNCHANGED <<mainVars, localVars, args>>

NextVideo == VideoCall

SpecVideo == InitVideo /\ [][NextVideo]_vars

-----------------------------------------------------------------------------
(* compute_audio_score called on a list that grows by one stream at a time *)

MaxStreams == 2

AudioBitRates == {"", "384000", "448000", "1536000"}

\* codec_name, profile
AudioCodecs ==
    {<<"truehd", "Dolby TrueHD + Dolby Atmos">>,
     <<"dts", "DTS-HD MA">>,
     <<"dts", "DTS">>,
     <<"eac3", "">>,
     <<"eac3", "Dolby Digital Plus + Dolby Atmos">>,
     <<"ac3", "">>,
     <<"aac", "LC">>,
     <<"flac", "">>}

AudioStream(codec, profile, ch, br) ==
    LET base == [codec_type |-> "audio", codec_name |-> codec, channels |-> ch]
        p    == IF profile = "" THEN base ELSE base @@ [profile |-> profile]
    IN  IF br = "" THEN p ELSE p @@ [bit_rate |-> br]

AudioArgs ==
    {AudioStream(c[1], c[2], ch, br) :
        c \in AudioCodecs, ch \in {6}, br \in AudioBitRates}
    \cup {AudioStream("eac3", "", 2, "640000"),
          AudioStream("eac3", "Dolby Digital Plus + Dolby Atmos", 8, "768000"),
          AudioStream("ac3", "", 2, "192000"),
          \* bit rate only in the BPS tag, object audio named only in the title
          [codec_type |-> "audio", codec_name |-> "dts", channels |-> 8,
           tags |-> <<<<"language", "eng">>, <<"BPS", "1536000">>,
                      <<"title", "DTS:X 7.1">>>>],
          [codec_type |-> "audio", codec_name |-> "aac", channels |-> 6,
           bit_rate |-> "384000"],
          [codec_type |-> "audio", codec_name |-> "aac", channels |-> 1],
          [codec_type |-> "audio"],
          [codec_type |-> "subtitle", codec_name |-> "truehd"],
          [codec_type |-> "video", codec_name |-> "hevc", width |-> 3840]}

InitAudio ==
    /\ MainIdle
    /\ LocalsUnbound
    /\ pc = "compute_audio_score"
    /\ args = <<>>
    /\ ret = compute_audio_score(<<>>)

\* one more stream in the list, and compute_audio_score of the longer list
AudioCall ==
    /\ pc = "compute_audio_score"
    /\ Len(args) < MaxStreams
    /\ \E a \in AudioArgs : args' = Append(args, a)
    /\ ret' = compute_audio_score(args')
    /\ UNCHANGED <<pc, mainVars, localVars>>

NextAudio == AudioCall

SpecAudio == InitAudio /\ [][NextAudio]_vars

-----------------------------------------------------------------------------
(* ANALYSIS *)

\* str(Path(p)): empty and "." components and a trailing "/" are dropped
\* (POSIX paths; a path starting with exactly two slashes is not among the
\* inputs)
RECURSIVE path_parts(_, _, _)
path_parts(s, cur, acc) ==
    LET done == IF cur \in {"", "."} THEN acc ELSE Append(acc, cur)
    IN  IF s = "" THEN done
        ELSE IF SubSeq(s, 1, 1) = "/" THEN path_parts(SubSeq(s, 2, Len(s)), "", done)
        ELSE path_parts(SubSeq(s, 2, Len(s)), cur \o SubSeq(s, 1, 1), acc)

RECURSIVE join_parts(_)
join_parts(parts) ==
    IF parts = <<>> THEN ""
    ELSE IF Len(parts) = 1 THEN parts[1]
    ELSE parts[1] \o "/" \o join_parts(Tail(parts))

PathStr(p) ==
    LET parts == path_parts(p, "", <<>>)
        root  == IF StartsWith(p, "/") THEN "/" ELSE ""
    IN  IF root = "" /\ parts = <<>> THEN "." ELSE root \o join_parts(parts)

\* file.exists()
Exists(path) == path \in DOMAIN disk

\* positions, in order, of the elements a list comprehension keeps; keep[i]
\* is the comprehension's condition on element i
RECURSIVE Positions(_, _)
Positions(keep, i) ==
    IF i > Len(keep) THEN <<>>
    ELSE IF keep[i] THEN <<i>> \o Positions(keep, i + 1)
    ELSE Positions(keep, i + 1)

\* the filter that forgets the disposition
IsAnyVideo(s) == Get(s, "codec_type", "") = "video"

\* the condition of the video_streams comprehension
IsVideoStream(s) ==
    /\ Get(s, "codec_type", "") = "video"
    /\ Get(Get(s, "disposition", <<>>), "attached_pic", 0) # 1

\* [s for s in streams if <video condition>], as positions
VideoPositions(ss) == Positions([i \in DOMAIN ss |-> IsVideoStream(ss[i])], 1)

IsAudioStream(s) == Get(s, "codec_type", "") = "audio"

\* [s for s in streams if s.get("codec_type") == "audio"], as positions
AudioPositions(ss) == Positions([i \in DOMAIN ss |-> IsAudioStream(ss[i])], 1)

\* the body of "for v in video_streams": <<hdr_label, is_hdr, is_dv>>,
\* with the Dolby Vision branch forgetting is_hdr
classify_dv_only(v, hdr, dv) ==
    LET transfer == Get(v, "color_transfer", "")
    IN  IF detect_dolby_vision(v) THEN <<"Dolby Vision", hdr, TRUE>>
        ELSE IF transfer \in {"smpte2084", "arib-std-b67"} THEN <<"HDR", TRUE, dv>>
        ELSE <<"SDR", hdr, dv>>

\* the body of "for v in video_streams": <<hdr_label, is_hdr, is_dv>>,
\* with the flags describing the current stream only
classify_per_stream(v, hdr, dv) ==
    LET transfer == Get(v, "color_transfer", "")
    IN  IF detect_dolby_vision(v) THEN <<"Dolby Vision", TRUE, TRUE>>
        ELSE IF transfer \in {"smpte2084", "arib-std-b67"} THEN <<"HDR", TRUE, FALSE>>
        ELSE <<"SDR", FALSE, FALSE>>

\* the body of "for v in video_streams": <<hdr_label, is_hdr, is_dv>>
classify(v, hdr, dv) ==
    LET transfer == Get(v, "color_transfer", "")
    IN  IF detect_dolby_vision(v) THEN <<"Dolby Vision", TRUE, TRUE>>
        ELSE IF transfer \in {"smpte2084", "arib-std-b67"} THEN <<"HDR", TRUE, dv>>
        ELSE <<"SDR", hdr, dv>>

\* max() that returns the last of several maximal elements
Replaces_last(candidate, best) == candidate >= best

\* max(): a later element replaces the best so far only when strictly greater
Replaces(candidate, best) == candidate > best

\* max(video_streams, key=lambda x: x.get("width", 0)), on a non-empty list
RECURSIVE max_by_width(_, _, _, _)
max_by_width(ss, vs, i, best) ==
    IF i > Len(vs) THEN best
    ELSE IF Replaces(Get(ss[vs[i]], "width", 0), Get(ss[best], "width", 0))
         THEN max_by_width(ss, vs, i + 1, vs[i])
    ELSE max_by_width(ss, vs, i + 1, best)

\* the label printed for an audio stream
object_type(a) ==
    LET d == detect_object_audio(a)
        h == d[2]
    IN  IF ~d[1] THEN ""
        ELSE IF Contains(h, "atmos") THEN "Atmos"
        ELSE IF Contains(h, "dts:x") \/ Contains(h, "dtsx") \/ Contains(h, "dts x")
             THEN "DTS:X"
        ELSE IF Contains(h, "auro") \/ Contains(h, "auro-3d") THEN "Auro-3D"
        ELSE IF Contains(h, "mpeg-h") \/ Contains(h, "3d audio") THEN "MPEG-H"
        ELSE ""

\* round(x, 2) of x thousandths, in hundredths. A tie (a 5 in the third
\* decimal) goes down or up with the binary representation error of the
\* float operands: both neighbours are outcomes.
Round2(x) ==
    LET q == x \div 10
        r == x % 10
    IN  IF r < 5 THEN {q} ELSE IF r > 5 THEN {q + 1} ELSE {q, q + 1}

\* the weights exchanged
weighted_swapped(video, audio) == video * 3 + audio * 7

\* video_score * 0.7 + audio_score * 0.3, in thousandths
weighted(video, audio) == video * 7 + audio * 3

\* the values round(min(video_score * 0.7 + audio_score * 0.3, 5.0), 2) can take
media_scores(video, audio) == Round2(Min(weighted(video, audio), 5000))

\* the lines of analyze_file's loop over audio_streams
audio_lines(ss, as) ==
    [i \in DOMAIN as |->
        [kind |-> "audio_stream", stream |-> as[i], obj_type |-> object_type(ss[as[i]])]]

\* if not file.exists(): print, and raise instead of returning
NotFound_raises ==
    /\ pc = "main"
    /\ Len(argv) >= 1
    /\ idx <= Len(argv)
    /\ ~Exists(PathStr(argv[idx]))
    /\ file' = PathStr(argv[idx])
    /\ stdout' = Append(stdout, [kind |-> "not_found", file |-> file'])
    /\ exc' = "FileNotFoundError"
    /\ pc' = "crashed"
    /\ UNCHANGED <<argv, disk, idx, FILE_MEDIA_SCORE, probed, streams, fmt,
                   video_streams, k, is_hdr, is_dv, best_video, video_score, vbps,
                   video_verdict, audio_score, media_score, unitVars>>

\* if not file.exists(): print, return
NotFound ==
    /\ pc = "main"
    /\ Len(argv) >= 1
    /\ idx <= Len(argv)
    /\ ~Exists(PathStr(argv[idx]))
    /\ file' = PathStr(argv[idx])
    /\ stdout' = Append(stdout, [kind |-> "not_found", file |-> file'])
    /\ streams' = <<>> /\ fmt' = <<>> /\ video_streams' = <<>> /\ k' = 1
    /\ is_hdr' = FALSE /\ is_dv' = FALSE /\ best_video' = 0
    /\ video_score' = Unset /\ vbps' = ZeroRate /\ video_verdict' = ""
    /\ audio_score' = Unset /\ media_score' = Unset
    /\ idx' = idx + 1
    /\ UNCHANGED <<argv, disk, pc, FILE_MEDIA_SCORE, probed, exc, unitVars>>

\* run_ffprobe returns: lines 204-221
ProbeOk ==
    /\ pc = "main"
    /\ Len(argv) >= 1
    /\ idx <= Len(argv)
    /\ Exists(PathStr(argv[idx]))
    /\ disk[PathStr(argv[idx])].probe = "ok"
    /\ file' = PathStr(argv[idx])
    /\ stdout' = Append(stdout, [kind |-> "file", file |-> file'])
    /\ probed' = Append(probed, file')
    /\ streams' = Get(disk[file'].data, "streams", <<>>)
    /\ fmt' = Get(disk[file'].data, "format", <<>>)
    /\ video_streams' = VideoPositions(streams')
    /\ k' = 1
    /\ is_hdr' = FALSE /\ is_dv' = FALSE /\ best_video' = 0
    /\ video_score' = Unset /\ vbps' = ZeroRate /\ video_verdict' = ""
    /\ audio_score' = Unset /\ media_score' = Unset
    /\ pc' = "classify"
    /\ UNCHANGED <<argv, disk, idx, FILE_MEDIA_SCORE, exc, unitVars>>

\* run_ffprobe raises (ffprobe exits non-zero, or prints what json.loads
\* rejects); nothing catches it
ProbeFails ==
    /\ pc = "main"
    /\ Len(argv) >= 1
    /\ idx <= Len(argv)
    /\ Exists(PathStr(argv[idx]))
    /\ disk[PathStr(argv[idx])].probe # "ok"
    /\ file' = PathStr(argv[idx])
    /\ stdout' = Append(stdout, [kind |-> "file", file |-> file'])
    /\ probed' = Append(probed, file')
    /\ exc' = IF disk[file'].probe = "exit_1" THEN "CalledProcessError"
              ELSE "JSONDecodeError"
    /\ streams' = <<>> /\ fmt' = <<>> /\ video_streams' = <<>> /\ k' = 1
    /\ is_hdr' = FALSE /\ is_dv' = FALSE /\ best_video' = 0
    /\ video_score' = Unset /\ vbps' = ZeroRate /\ video_verdict' = ""
    /\ audio_score' = Unset /\ media_score' = Unset
    /\ pc' = "crashed"
    /\ UNCHANGED <<argv, disk, idx, FILE_MEDIA_SCORE, unitVars>>

\* one iteration of "for v in video_streams": lines 223-244
Classify ==
    /\ pc = "classify"
    /\ k <= Len(video_streams)
    /\ LET v == streams[video_streams[k]]
           c == classify(v, is_hdr, is_dv)
       IN  /\ is_hdr' = c[2]
           /\ is_dv' = c[3]
           /\ vbps' = get_video_bitrate_mbps(v, fmt)
           /\ stdout' = Append(stdout, [kind |-> "video_stream",
                                        stream |-> video_streams[k],
                                        hdr_label |-> c[1]])
    /\ k' = k + 1
    /\ UNCHANGED <<argv, disk, pc, idx, FILE_MEDIA_SCORE, probed, exc, file, streams,
                   fmt, video_streams, best_video, video_score, video_verdict,
                   audio_score, media_score, unitVars>>

\* lines 246-247
ScoreVideo ==
    /\ pc = "classify"
    /\ k > Len(video_streams)
    /\ video_streams # <<>>
    /\ best_video' = max_by_width(streams, video_streams, 2, video_streams[1])
    /\ LET r == compute_video_score(streams[best_video'], fmt, is_hdr, is_dv)
       IN  /\ video_score' = r.score
           /\ vbps' = r.vbps
           /\ video_verdict' = r.verdict
    /\ pc' = "audio"
    /\ UNCHANGED <<argv, disk, idx, FILE_MEDIA_SCORE, stdout, probed, exc, file,
                   streams, fmt, video_streams, k, is_hdr, is_dv, audio_score,
                   media_score, unitVars>>

\* line 246 on an empty list: max() raises ValueError; nothing catches it
NoVideoStream ==
    /\ pc = "classify"
    /\ k > Len(video_streams)
    /\ video_streams = <<>>
    /\ exc' = "ValueError"
    /\ pc' = "crashed"
    /\ UNCHANGED <<argv, disk, idx, FILE_MEDIA_SCORE, stdout, probed, localVars,
                   unitVars>>

\* lines 250-282, and the return to main's loop
ScoreAudio ==
    /\ pc = "audio"
    /\ LET audio_streams == AudioPositions(streams)
           audio_list    == [i \in DOMAIN audio_streams |-> streams[audio_streams[i]]]
       IN  /\ audio_score' = compute_audio_score(audio_list)
           /\ media_score' \in media_scores(video_score, audio_score')
           /\ FILE_MEDIA_SCORE' = OPut(FILE_MEDIA_SCORE, file, <<media_score', vbps>>)
           /\ stdout' = stdout \o audio_lines(streams, audio_streams)
                          \o <<[kind |-> "media_score", value |-> media_score'],
                               [kind |-> "verdict", value |-> video_verdict]>>
    /\ idx' = idx + 1
    /\ pc' = "main"
    /\ UNCHANGED <<argv, disk, probed, exc, file, streams, fmt, video_streams, k,
                   is_hdr, is_dv, best_video, video_score, vbps, video_verdict,
                   unitVars>>

-----------------------------------------------------------------------------
(* main *)

\* lexicographic order of (media_score, vbps)
TupleGT(x, y) == x[1] > y[1] \/ (x[1] = y[1] /\ RateGT(x[2], y[2]))

\* the key that leaves the bitrate out
Better_score_only(x, y) == x[1] > y[1]

\* a later item replaces the best so far when its key is strictly greater
Better(x, y) == TupleGT(x, y)

\* max(FILE_MEDIA_SCORE.items(), key=lambda x: (x[1][0], x[1][1]))[0],
\* on a non-empty dict
RECURSIVE max_item(_, _, _)
max_item(d, i, best) ==
    IF i > Len(d) THEN d[best][1]
    ELSE IF Better(d[i][2], d[best][2]) THEN max_item(d, i + 1, i)
    ELSE max_item(d, i + 1, best)

\* best_file if len(best_file) <= 100 else "..." + best_file[-97:]
Display(best_file) ==
    IF Len(best_file) <= 100 THEN best_file
    ELSE "..." \o SubSeq(best_file, Len(best_file) - 96, Len(best_file))

\* lines 286-288
Usage ==
    /\ pc = "main"
    /\ Len(argv) < 1
    /\ stdout' = Append(stdout, [kind |-> "usage"])
    /\ exc' = "SystemExit"
    /\ pc' = "exited"
    /\ UNCHANGED <<argv, disk, idx, FILE_MEDIA_SCORE, probed, localVars, unitVars>>

\* lines 293-300
SelectPreferred ==
    /\ pc = "main"
    /\ idx > Len(argv)
    /\ Len(argv) > 1
    /\ FILE_MEDIA_SCORE # <<>>
    /\ stdout' = Append(stdout, [kind |-> "preferred",
                                 file |-> Display(max_item(FILE_MEDIA_SCORE, 2, 1))])
    /\ pc' = "done"
    /\ UNCHANGED <<argv, disk, idx, FILE_MEDIA_SCORE, probed, exc, localVars, unitVars>>

\* line 294 on an empty dict: max() raises ValueError; nothing catches it
SelectFails ==
    /\ pc = "main"
    /\ idx > Len(argv)
    /\ Len(argv) > 1
    /\ FILE_MEDIA_SCORE = <<>>
    /\ exc' = "ValueError"
    /\ pc' = "crashed"
    /\ UNCHANGED <<argv, disk, idx, FILE_MEDIA_SCORE, stdout, probed, localVars,
                   unitVars>>

\* one argument: main returns after the loop
Finish ==
    /\ pc = "main"
    /\ idx > Len(argv)
    /\ Len(argv) = 1
    /\ pc' = "done"
    /\ UNCHANGED <<mainVars, localVars, unitVars>>

-----------------------------------------------------------------------------
(* The whole program, run on a fixed file system *)

MaxArgs == 3

DoviSideData == <<[side_data_type |-> "DOVI configuration record"]>>
Hdr10SideData == <<[side_data_type |-> "Mastering display metadata"],
                   [side_data_type |-> "Content light level metadata"]>>

Eac3Stereo640 == AudioStream("eac3", "", 2, "640000")

CoverArt ==
    [codec_type |-> "video", codec_name |-> "mjpeg", width |-> 4000, height |-> 4000,
     pix_fmt |-> "yuvj420p", color_transfer |-> "smpte2084",
     disposition |-> [default |-> 0, attached_pic |-> 1]]

\* 3840x2160, Dolby Vision, 16 Mbps; eac3 stereo at 640 kbps
FileA ==
    [streams |-> <<[codec_type |-> "video", codec_name |-> "hevc", width |-> 3840,
                    height |-> 2160, pix_fmt |-> "yuv420p10le",
                    color_transfer |-> "smpte2084", bit_rate |-> "16000000",
                    disposition |-> [default |-> 1, attached_pic |-> 0],
                    side_data_list |-> DoviSideData],
                   Eac3Stereo640>>,
     format  |-> [size |-> 2100000, duration |-> 1]]

\* 3840x2160, HDR10, 18 Mbps
FileB ==
    [streams |-> <<[codec_type |-> "video", codec_name |-> "hevc", width |-> 3840,
                    height |-> 2160, pix_fmt |-> "yuv420p10le",
                    color_transfer |-> "smpte2084", bit_rate |-> "18000000",
                    side_data_list |-> Hdr10SideData],
                   Eac3Stereo640>>,
     format  |-> [size |-> 2400000, duration |-> 1]]

\* 3840x2160, HLG, no stream bit rate: 5500000 bytes in 2 seconds are 22 Mbps
FileC ==
    [streams |-> <<Eac3Stereo640,
                   [codec_type |-> "video", codec_name |-> "hevc", width |-> 3840,
                    height |-> 2160, pix_fmt |-> "yuv420p10le",
                    color_transfer |-> "arib-std-b67"]>>,
     format  |-> [size |-> 5500000, duration |-> 2]]

\* 1920x1080 SDR at 8 Mbps with cover art; eac3 Atmos 5.1 at 768 kbps and aac
FileD ==
    [streams |-> <<CoverArt,
                   [codec_type |-> "video", codec_name |-> "h264", width |-> 1920,
                    height |-> 1080, pix_fmt |-> "yuv420p",
                    color_transfer |-> "bt709", bit_rate |-> "8000000",
                    codec_tag_string |-> "avc1"],
                   AudioStream("aac", "LC", 2, "128000"),
                   AudioStream("eac3", "Dolby Digital Plus + Dolby Atmos", 6, "768000"),
                   [codec_type |-> "subtitle", codec_name |-> "subrip"]>>,
     format  |-> [size |-> 1200000, duration |-> 1]]

\* an audio file: its only video stream is the cover art
FileSong ==
    [streams |-> <<[codec_type |-> "audio", codec_name |-> "mp3", channels |-> 2,
                    bit_rate |-> "320000"],
                   CoverArt>>,
     format  |-> [size |-> 40000, duration |-> 1]]

Disk ==
    ("a.mkv" :> [probe |-> "ok", data |-> FileA])
    @@ ("b.mkv" :> [probe |-> "ok", data |-> FileB])
    @@ ("c.mkv" :> [probe |-> "ok", data |-> FileC])
    @@ ("d.mkv" :> [probe |-> "ok", data |-> FileD])
    @@ ("song.mp3" :> [probe |-> "ok", data |-> FileSong])
    @@ ("corrupt.mkv" :> [probe |-> "exit_1", data |-> <<>>])
    @@ ("truncated.mkv" :> [probe |-> "malformed", data |-> <<>>])

Paths ==
    {"a.mkv", "./a.mkv", "b.mkv", "c.mkv", "d.mkv", "song.mp3", "corrupt.mkv",
     "truncated.mkv", "missing.mkv"}

Init ==
    /\ argv \in UNION {[1..n -> Paths] : n \in 0..MaxArgs}
    /\ disk = Disk
    /\ pc = "main"
    /\ idx = 1
    /\ FILE_MEDIA_SCORE = <<>>
    /\ stdout = <<>>
    /\ probed = <<>>
    /\ exc = ""
    /\ LocalsUnbound
    /\ UnitIdle

Next ==
    \/ Usage
    \/ NotFound
    \/ ProbeOk
    \/ ProbeFails
    \/ Classify
    \/ ScoreVideo
    \/ NoVideoStream
    \/ ScoreAudio
    \/ SelectPreferred
    \/ SelectFails
    \/ Finish

Spec == Init /\ [][Next]_vars

-----------------------------------------------------------------------------
(* analyze_file on one file whose streams are drawn from a set *)

MaxVideoStreams == 3

AnalyzeStreams ==
    {\* 3840 SDR, 25 Mbps
     [codec_type |-> "video", width |-> 3840, color_transfer |-> "bt709",
      bit_rate |-> "25000000"],
     \* 3840 HDR10, 16 Mbps
     [codec_type |-> "video", width |-> 3840, color_transfer |-> "smpte2084",
      bit_rate |-> "16000000", side_data_list |-> Hdr10SideData],
     \* 1920 Dolby Vision by side data, HDR transfer
     [codec_type |-> "video", width |-> 1920, color_transfer |-> "smpte2084",
      bit_rate |-> "8000000", side_data_list |-> DoviSideData,
      disposition |-> [default |-> 1, attached_pic |-> 0]],
     \* 3840 Dolby Vision by codec tag, no transfer, bit rate from the container
     [codec_type |-> "video", width |-> 3840, codec_tag_string |-> "DVH1"],
     \* 1920 HLG
     [codec_type |-> "video", width |-> 1920, color_transfer |-> "arib-std-b67",
      bit_rate |-> "21000000", codec_tag_string |-> "hvc1"],
     \* 1280 SDR, no width limit reached
     [codec_type |-> "video", width |-> 1280, bit_rate |-> "4000000"],
     \* cover art, wider than any video, HDR transfer and Dolby Vision tag
     CoverArt @@ [codec_tag_string |-> "dvhe"],
     Eac3Stereo640}

InitAnalyze ==
    /\ argv = <<"input.mkv">>
    /\ \E ss \in UNION {[1..n -> AnalyzeStreams] : n \in 0..MaxVideoStreams} :
         disk = ("input.mkv" :>
                    [probe |-> "ok",
                     data  |-> [streams |-> ss,
                                format  |-> [size |-> 3000000, duration |-> 2]]])
    /\ pc = "main"
    /\ idx = 1
    /\ FILE_MEDIA_SCORE = <<>>
    /\ stdout = <<>>
    /\ probed = <<>>
    /\ exc = ""
    /\ LocalsUnbound
    /\ UnitIdle

NextAnalyze ==
    \/ ProbeOk
    \/ Classify
    \/ ScoreVideo
    \/ NoVideoStream
    \/ ScoreAudio

SpecAnalyze == InitAnalyze /\ [][NextAnalyze]_vars

-----------------------------------------------------------------------------
(* Properties *)

Terminated == pc \in {"done", "crashed", "exited"}

\* the lines that open the report of one argument, one per analyze_file call
Entries == SelectSeq(stdout, LAMBDA l : l.kind \in {"not_found", "file"})

PreferredLines == SelectSeq(stdout, LAMBDA l : l.kind = "preferred")

\* the decision table of the video scorer, first matching row first
VideoTable ==
    <<[w |-> 3840, hdr |-> {TRUE},        mbps |-> 15, score |-> 500, verdict |-> "REFERENCE QUALITY"],
      [w |-> 3840, hdr |-> {TRUE},        mbps |-> 12, score |-> 450, verdict |-> "EXCELLENT"],
      [w |-> 3840, hdr |-> {TRUE},        mbps |-> 0,  score |-> 400, verdict |-> "GOOD"],
      [w |-> 3840, hdr |-> {FALSE},       mbps |-> 20, score |-> 450, verdict |-> "EXCELLENT"],
      [w |-> 3840, hdr |-> {FALSE},       mbps |-> 0,  score |-> 400, verdict |-> "GOOD"],
      [w |-> 1920, hdr |-> {TRUE, FALSE}, mbps |-> 30, score |-> 450, verdict |-> "EXCELLENT"],
      [w |-> 1920, hdr |-> {TRUE, FALSE}, mbps |-> 20, score |-> 400, verdict |-> "GOOD"],
      [w |-> 1920, hdr |-> {TRUE, FALSE}, mbps |-> 0,  score |-> 350, verdict |-> "MEDIUM"],
      [w |-> 1280, hdr |-> {TRUE, FALSE}, mbps |-> 0,  score |-> 300, verdict |-> "MEDIUM"],
      [w |-> 0,    hdr |-> {TRUE, FALSE}, mbps |-> 0,  score |-> 200, verdict |-> "LOW"]>>

RowMatches(row, width, hdr_or_dv, rate) ==
    /\ width >= row.w
    /\ hdr_or_dv \in row.hdr
    /\ rate.num >= row.mbps * 1000000 * rate.den

\* C1: compute_video_score returns the score and the verdict of the first row
\* of the decision table that matches the stream's width, the HDR/DV flags
\* and the bitrate; the score is one of 2.0, 3.0, 3.5, 4.0, 4.5, 5.0.
C1_VideoDecisionTable ==
    pc = "video_returned" =>
        LET width == Get(args.v, "width", 0)
            flag  == args.is_hdr \/ args.is_dv
            first == CHOOSE i \in DOMAIN VideoTable :
                        /\ RowMatches(VideoTable[i], width, flag, ret.vbps)
                        /\ \A j \in 1..(i - 1) :
                              ~RowMatches(VideoTable[j], width, flag, ret.vbps)
        IN  /\ ret.score = VideoTable[first].score
            /\ ret.verdict = VideoTable[first].verdict
            /\ ret.score \in {200, 300, 350, 400, 450, 500}

\* a 3840-wide stream flagged Dolby Vision only, at 16 Mbps, scored 5.0
C1_Witness ==
    /\ pc = "video_returned"
    /\ Get(args.v, "width", 0) = 3840
    /\ Get(args.v, "bit_rate", "") = "16000000"
    /\ args.is_dv /\ ~args.is_hdr
    /\ ret.score = 500
    /\ ret.verdict = "REFERENCE QUALITY"

AudioScoresOf(ss) ==
    {audio_stream_score(ss[i]) : i \in {j \in DOMAIN ss : ss[j].codec_type = "audio"}}

\* C2: compute_audio_score returns the greatest per-stream score of the audio
\* streams of the list, 0.0 when there is none; a stream added at the end
\* never lowers the result and never raises it above the better of the
\* previous result and its own score; no score exceeds 5.0.
C2_AudioScoreIsMax ==
    pc = "compute_audio_score" =>
        LET scores == AudioScoresOf(args)
            before == SubSeq(args, 1, Len(args) - 1)
            prev   == AudioScoresOf(before)
        IN  /\ scores = {} => ret = 0
            /\ scores # {} => ret \in scores /\ \A x \in scores : x <= ret
            /\ ret <= 500
            /\ \A x \in prev : x <= ret
            /\ \A x \in scores \ prev : ret > x => ret \in prev

\* eac3 stereo at 640 kbps (4.6) after an eac3 Atmos 7.1 stream at 768 kbps
\* (4.95): the file scores 4.95
C2_Witness ==
    /\ pc = "compute_audio_score"
    /\ Len(args) = 2
    /\ args[2] = Eac3Stereo640
    /\ audio_stream_score(args[2]) = 460
    /\ audio_stream_score(args[1]) = 495
    /\ ret = 495

\* C3: once a file's analysis has completed, media_score is
\* min(0.7 * video_score + 0.3 * audio_score, 5.0) rounded to the nearest
\* hundredth, it is the score recorded for the file together with the
\* bitrate, the three scores lie in [0, 5], and video 5.0 with audio 4.6
\* gives 4.88.
C3_MediaScore ==
    media_score # Unset =>
        LET exact == Min(video_score * 7 + audio_score * 3, 5000)
        IN  /\ media_score * 10 - exact \in (0 - 5)..5
            /\ OGet(FILE_MEDIA_SCORE, file, <<>>) = <<media_score, vbps>>
            /\ video_score \in 0..500
            /\ audio_score \in 0..500
            /\ media_score \in 0..500
            /\ (video_score = 500 /\ audio_score = 460) => media_score = 488

C3_Witness ==
    /\ file = "a.mkv"
    /\ video_score = 500
    /\ audio_score = 460
    /\ media_score = 488
    /\ OGet(FILE_MEDIA_SCORE, "a.mkv", <<>>)[1] = 488

HdrTransfer(s) == Get(s, "color_transfer", "") \in {"smpte2084", "arib-std-b67"}

\* the video streams the loop has classified so far
Classified == {video_streams[i] : i \in 1..(k - 1)}

VideoLines == SelectSeq(stdout, LAMBDA l : l.kind = "video_stream")

\* C4: is_dv implies is_hdr at every point of the analysis; every listed
\* stream detected as Dolby Vision is labelled Dolby Vision whatever its
\* transfer, every other one with an HDR transfer is labelled HDR, the rest
\* SDR; and streams with an HDR transfer and no Dolby Vision marker set
\* is_hdr and leave is_dv unset.
C4_DolbyVisionImpliesHdr ==
    /\ is_dv => is_hdr
    /\ \A i \in DOMAIN VideoLines :
          LET s == streams[VideoLines[i].stream]
          IN  VideoLines[i].hdr_label =
                  IF detect_dolby_vision(s) THEN "Dolby Vision"
                  ELSE IF HdrTransfer(s) THEN "HDR" ELSE "SDR"
    /\ (\E j \in Classified : HdrTransfer(streams[j])) => is_hdr
    /\ (\A j \in Classified : ~detect_dolby_vision(streams[j])) => ~is_dv

\* an HDR10 stream then a Dolby Vision stream with the same transfer: after
\* the first only is_hdr is set, and the second is labelled Dolby Vision
C4_Witness ==
    /\ pc = "audio"
    /\ Len(VideoLines) = 2
    /\ VideoLines[1].hdr_label = "HDR"
    /\ VideoLines[2].hdr_label = "Dolby Vision"
    /\ Get(streams[VideoLines[2].stream], "color_transfer", "") = "smpte2084"
    /\ is_dv /\ is_hdr

\* C5: the file named by the preferred-file line is a key of
\* FILE_MEDIA_SCORE, no entry has a higher media_score, and no entry with
\* the same media_score has a higher video bitrate.
C5_PreferredIsLexMax ==
    \A i \in DOMAIN PreferredLines :
        LET best == PreferredLines[i].file
            mine == OGet(FILE_MEDIA_SCORE, best, <<>>)
        IN  /\ best \in OKeys(FILE_MEDIA_SCORE)
            /\ \A j \in DOMAIN FILE_MEDIA_SCORE :
                  LET other == FILE_MEDIA_SCORE[j][2]
                  IN  /\ other[1] <= mine[1]
                      /\ other[1] = mine[1] =>
                            other[2].num * mine[2].den <= mine[2].num * other[2].den

\* b.mkv (18 Mbps) and c.mkv (22 Mbps) with the same media score, b.mkv
\* analysed first: c.mkv is preferred
C5_Witness ==
    /\ pc = "done"
    /\ argv = <<"b.mkv", "c.mkv">>
    /\ OGet(FILE_MEDIA_SCORE, "b.mkv", <<>>) = <<488, [num |-> 18000000, den |-> 1]>>
    /\ OGet(FILE_MEDIA_SCORE, "c.mkv", <<>>) = <<488, [num |-> 44000000, den |-> 2]>>
    /\ PreferredLines = <<[kind |-> "preferred", file |-> "c.mkv"]>>

\* C6: when more than one argument is supplied and every call of
\* analyze_file has returned, the run ends with a preferred-file line.
C6_PreferredLineEmitted ==
    (Terminated /\ Len(argv) > 1 /\ idx > Len(argv)) =>
        /\ pc = "done"
        /\ stdout # <<>>
        /\ stdout[Len(stdout)].kind = "preferred"

\* argument i was handed to the probe and the probe failed
ProbeFailedAt(i) ==
    /\ i \in 1..Len(argv)
    /\ PathStr(argv[i]) \in DOMAIN disk
    /\ disk[PathStr(argv[i])].probe # "ok"
    /\ i < idx \/ (i = idx /\ pc = "crashed")

\* C7: a probe failure does not end the batch: when the run has ended, every
\* argument after a file whose probe failed has been handed to analyze_file
\* and the loop has completed, and the failing file is not in the score map.
C7_ProbeFailureIsolated ==
    \A i \in 1..Len(argv) :
        (Terminated /\ ProbeFailedAt(i)) =>
            /\ \A j \in (i + 1)..Len(argv) : idx > j
            /\ PathStr(argv[i]) \notin OKeys(FILE_MEDIA_SCORE)

Missing(i) == PathStr(argv[i]) \notin DOMAIN disk

\* C8: for every argument that does not exist: its call of analyze_file
\* prints the not-found line and returns, so that the loop is past it; the
\* path is never handed to the probe, never a key of FILE_MEDIA_SCORE and
\* never named by the preferred-file line.
C8_NotFoundSkipped ==
    /\ \A i \in DOMAIN Entries :
          /\ Entries[i].file = PathStr(argv[i])
          /\ Missing(i) <=> Entries[i].kind = "not_found"
          /\ Missing(i) => idx > i
    /\ \A i \in 1..Len(argv) :
          Missing(i) =>
              /\ PathStr(argv[i]) \notin OKeys(FILE_MEDIA_SCORE)
              /\ \A j \in DOMAIN probed : probed[j] # PathStr(argv[i])
              /\ \A j \in DOMAIN PreferredLines :
                    PreferredLines[j].file # PathStr(argv[i])
    /\ Len(Entries) \in {idx - 1, idx}

\* a missing path first, then two files that are analysed, and a preferred
\* file chosen among them
C8_Witness ==
    /\ pc = "done"
    /\ argv = <<"missing.mkv", "d.mkv", "a.mkv">>
    /\ Entries[1] = [kind |-> "not_found", file |-> "missing.mkv"]
    /\ OKeys(FILE_MEDIA_SCORE) = {"d.mkv", "a.mkv"}
    /\ probed = <<"d.mkv", "a.mkv">>
    /\ PreferredLines = <<[kind |-> "preferred", file |-> "a.mkv"]>>

\* a video stream that is not an attached picture
Qualifies(s) ==
    /\ "codec_type" \in DOMAIN s
    /\ s.codec_type = "video"
    /\ ~("disposition" \in DOMAIN s /\ s.disposition.attached_pic = 1)

WidthOf(s) == IF "width" \in DOMAIN s THEN s.width ELSE 0

\* C9: the stream whose width and bitrate are scored qualifies, no
\* qualifying stream is wider, and none of the same width comes before it;
\* only qualifying streams are collected, listed and classified.
C9_PrimaryStream ==
    /\ \A i \in DOMAIN video_streams : Qualifies(streams[video_streams[i]])
    /\ \A i \in DOMAIN VideoLines : Qualifies(streams[VideoLines[i].stream])
    /\ best_video # 0 =>
          /\ Qualifies(streams[best_video])
          /\ \A j \in DOMAIN streams :
                Qualifies(streams[j]) =>
                    /\ WidthOf(streams[j]) <= WidthOf(streams[best_video])
                    /\ WidthOf(streams[j]) = WidthOf(streams[best_video]) => j >= best_video
          /\ vbps = get_video_bitrate_mbps(streams[best_video], fmt)
          /\ video_score =
                compute_video_score(streams[best_video], fmt, is_hdr, is_dv).score

\* cover art 4000 wide first, then two different 3840-wide streams: the
\* first of the two is the primary stream
C9_Witness ==
    /\ pc = "audio"
    /\ Len(streams) = 3
    /\ ~Qualifies(streams[1]) /\ WidthOf(streams[1]) = 4000
    /\ WidthOf(streams[2]) = 3840 /\ WidthOf(streams[3]) = 3840
    /\ streams[2] # streams[3]
    /\ best_video = 2
    /\ video_streams = <<2, 3>>

\* classified HDR: Dolby Vision, or an HDR transfer
HdrClass(s) == detect_dolby_vision(s) \/ HdrTransfer(s)

\* C10: while the streams are iterated is_hdr (is_dv) is true exactly when
\* one of the streams classified so far is HDR (Dolby Vision), so a flag
\* once set stays set; the flags used for the score are those of the whole
\* file, whichever stream is the primary one.
C10_FileLevelFlags ==
    /\ pc \in {"classify", "audio"} =>
          /\ is_hdr <=> \E j \in Classified : HdrClass(streams[j])
          /\ is_dv <=> \E j \in Classified : detect_dolby_vision(streams[j])
    /\ video_score # Unset =>
          LET hdr == \E j \in DOMAIN streams :
                        Qualifies(streams[j]) /\ HdrClass(streams[j])
              dv  == \E j \in DOMAIN streams :
                        Qualifies(streams[j]) /\ detect_dolby_vision(streams[j])
          IN  /\ is_hdr = hdr
              /\ is_dv = dv
              /\ video_score =
                    compute_video_score(streams[best_video], fmt, hdr, dv).score

\* the primary stream is 3840 wide and SDR at 25 Mbps, a 1920-wide Dolby
\* Vision stream follows: the file is scored on the HDR rows, 5.0
C10_Witness ==
    /\ pc = "audio"
    /\ Len(streams) = 2
    /\ best_video = 1
    /\ ~HdrClass(streams[1])
    /\ WidthOf(streams[2]) = 1920
    /\ detect_dolby_vision(streams[2])
    /\ is_hdr /\ is_dv
    /\ video_score = 500

=============================================================================
